---- MODULE Spec2Model ----
(***************************************************************************)
(* A model of secrets::SecretVec (src/src/secret_vec.rs): a container that *)
(* owns one protected region (crate::boxed::Box) and hands out scoped      *)
(* shared (Ref) and exclusive (RefMut) guards whose creation and drop      *)
(* drive the region's page protection.                                     *)
(*                                                                         *)
(* crate::boxed::Box is not part of src/: its operations (Allocate,        *)
(* unlock, unlock_mut, lock, as_ref, as_mut, the destruction sequence) are *)
(* modelled from spec.md sections 3 and 4.1.  Everything named SecretVec_, *)
(* Ref_ or RefMut_ is translated from secret_vec.rs.                       *)
(***************************************************************************)
EXTENDS Naturals, Sequences, FiniteSets, TLC

VARIABLES
    pc,        \* position of the container's life: see PcValues
    box,       \* the protected region owned by the container (SecretVec.boxed)
    refs,      \* number of live Ref guards borrowed from the container
    refmuts,   \* number of live RefMut guards borrowed from the container
    ctor,      \* the constructor that built the container
    written,   \* the sequence of elements last stored through an exclusive view
    mutated,   \* whether a caller has written through a RefMut since construction
    source,    \* the caller's buffer handed to SecretVec::from
    owner,     \* the binding that owns the container (0: none yet)
    user,      \* the binding the last container operation was made through
    peer,      \* the region of a second container, made by SecretVec::new
    pguard     \* the guard alive over the second container: none, Ref or RefMut

vars ==
    <<pc, box, refs, refmuts, ctor, written, mutated,
      source, owner, user, peer, pguard>>

\* the second container and its guard
peerVars == <<peer, pguard>>

\* the bindings a container passes through
moveVars == <<owner, user>>

\* ------------------------------------------------------------------ bounds

\* longest container built
MaxLen == 2
\* bytes range over 0..MaxByte
MaxByte == 1
\* most shared guards alive at once
MaxRefs == 3
\* canary values range over 0..MaxCanary
MaxCanary == 1

\* most bytes of a container that gets a second one beside it
MaxPairBytes == 1

Bytes == 0..MaxByte
CanaryValues == 0..MaxCanary
\* element byte-sizes: a one-byte scalar (u8) and a fixed-size array ([u8; 2])
ElemSizes == {1, 2}

\* the bindings of a container: the one it is built into and the one it is
\* moved to (secret_1, secret_2)
Bindings == {1, 2}

PcValues ==
    {"none", "initializing", "initialized", "live",
     "dropping", "erased", "munlocked", "released"}

\* ------------------------------------------------- typed views over bytes

\* the values of an element type of `es` bytes
Elements(es) == [1..es -> Bytes]

\* the slices of `n` elements of `es` bytes each
Slices(n, es) == [1..n -> Elements(es)]

\* the zero element / the all-zero slice (Zeroable)
ZeroSlice(n, es) == [i \in 1..n |-> [j \in 1..es |-> 0]]

\* the raw bytes of a typed slice, element after element
AsBytes(s, es) ==
    [k \in 1..(Len(s) * es) |-> s[((k - 1) \div es) + 1][((k - 1) % es) + 1]]

\* the typed slice a byte area of `n` elements of `es` bytes casts to
AsSlice(bytes, n, es) ==
    [i \in 1..n |-> [j \in 1..es |-> bytes[(i - 1) * es + j]]]

AllZero(bytes) == \A k \in 1..Len(bytes) : bytes[k] = 0

\* ------------------------------------------- the protected region (Box<T>)

NoBox ==
    [len |-> 0, esize |-> 1, bytes |-> <<>>, prot |-> "NoAccess",
     shared |-> 0, exclusive |-> FALSE, canary |-> 0, expect |-> 0,
     mlocked |-> FALSE, mapped |-> FALSE, abort |-> FALSE, addr |-> 0]

\* Allocate: map the region, write the canary, mlock, protect no-access.
\* The data area holds whatever the allocator left there: the fill byte g.
Allocate(len, es, g, c) ==
    [len |-> len, esize |-> es, bytes |-> [k \in 1..(len * es) |-> g],
     prot |-> "NoAccess", shared |-> 0, exclusive |-> FALSE,
     canary |-> c, expect |-> c,
     mlocked |-> TRUE, mapped |-> TRUE, abort |-> FALSE, addr |-> 1]

\* a fatal contract violation: the process aborts, the region is left as it is
Abort(b) == [b EXCEPT !.abort = TRUE]

UnlockShared(b) ==
    IF b.exclusive
    THEN Abort(b)
    ELSE [b EXCEPT !.shared = @ + 1,
                   !.prot = IF b.shared = 0 THEN "ReadOnly" ELSE @]

\* an exclusive unlock that grants the view whatever is held
UnlockExclusive_unchecked(b) ==
    [b EXCEPT !.exclusive = TRUE, !.prot = "ReadWrite"]

UnlockExclusive(b) ==
    IF b.shared # 0 \/ b.exclusive
    THEN Abort(b)
    ELSE [b EXCEPT !.exclusive = TRUE, !.prot = "ReadWrite"]

LockShared(b) ==
    [b EXCEPT !.shared = @ - 1,
              !.prot = IF b.shared = 1 THEN "NoAccess" ELSE @]

LockExclusive(b) ==
    [b EXCEPT !.exclusive = FALSE, !.prot = "NoAccess"]

\* Box::unlock, Box::unlock_mut: what Ref and RefMut call to gain access
unlock(b) == UnlockShared(b)

unlock_mut(b) == UnlockExclusive(b)

\* Box::lock: the one release operation both guard kinds call on drop
lock(b) ==
    IF b.exclusive THEN LockExclusive(b)
    ELSE IF b.shared > 0 THEN LockShared(b)
    ELSE Abort(b)

\* Box::as_ref: the typed view of the data area
as_ref(b) == AsSlice(b.bytes, b.len, b.esize)

\* Box::as_mut, then a store of element v at index i through the view
as_mut_store(b, i, v) ==
    [b EXCEPT !.bytes = [k \in 1..Len(b.bytes) |->
        IF (k - 1) \div b.esize = i - 1 THEN v[((k - 1) % b.esize) + 1]
        ELSE b.bytes[k]]]

\* Box::as_mut, then a store of the whole slice s (clone_from_slice)
as_mut_fill(b, s) == [b EXCEPT !.bytes = AsBytes(s, b.esize)]

\* the bytes at which two elements differ, every byte visited
RECURSIVE ElementMismatches(_, _, _)
ElementMismatches(x, y, k) ==
    IF k = 0 THEN 0
    ELSE (IF x[k] # y[k] THEN 1 ELSE 0) + ElementMismatches(x, y, k - 1)

\* the bytes at which two slices of one length differ, every element visited
RECURSIVE Mismatches(_, _, _)
Mismatches(l, r, n) ==
    IF n = 0 THEN 0
    ELSE ElementMismatches(l[n], r[n], Len(l[n])) + Mismatches(l, r, n - 1)

\* ConstantEq on slices: a comparison that never stops at the first mismatch
constant_eq(l, r) == Len(l) = Len(r) /\ Mismatches(l, r, Len(l)) = 0

\* PartialEq for Box on the regions at l and r of heap h: fresh shared views
\* of both sides, the constant-time comparison, both views released
Box_eq(h, l, r) ==
    LET h1 == [h EXCEPT ![l] = unlock(@)]
        h2 == [h1 EXCEPT ![r] = unlock(@)]
        res == constant_eq(as_ref(h2[l]), as_ref(h2[r]))
        h3 == [h2 EXCEPT ![l] = lock(@)]
        h4 == [h3 EXCEPT ![r] = lock(@)]
    IN  [heap |-> h4, result |-> res]

\* Box's Debug: a fixed redaction marker, whatever the region holds
fmt(b) == <<"REDACTED">>

\* Box::new, first half: allocate and take the exclusive view for the initializer
\* a Box::new that calls the initializer on the region as allocated
BoxNewUnlocked_noview(len, es, g, c) == Allocate(len, es, g, c)

BoxNewUnlocked(len, es, g, c) == unlock_mut(Allocate(len, es, g, c))

\* a destruction that checks the counters and not the canary
DestroyVerify_nocanary(b) ==
    IF b.shared # 0 \/ b.exclusive THEN Abort(b) ELSE b

\* Destroy, step 1: the borrow counters must be clear and the canary intact
DestroyVerify(b) ==
    IF b.shared # 0 \/ b.exclusive \/ b.canary # b.expect THEN Abort(b) ELSE b

\* a destruction that leaves the data as it is
DestroyErase_skip(b) == b

\* Destroy, step 2: overwrite the data area with zeroes
DestroyErase(b) == [b EXCEPT !.bytes = [k \in 1..Len(b.bytes) |-> 0]]

\* Destroy, step 3: munlock
DestroyMunlock(b) == [b EXCEPT !.mlocked = FALSE]

\* Destroy, step 4: release the mapping, guard pages included
DestroyRelease(b) == [b EXCEPT !.mapped = FALSE]

\* -------------------------------------------------- SecretVec, Ref, RefMut

\* an initializer that is dropped and never invoked
SecretVec_new_init_ignored(b, f) == b

\* SecretVec::new hands the caller's initializer to Box::new, which runs it
\* against the exclusive view; f is the slice the initializer stores
SecretVec_new_init(b, f) == as_mut_fill(b, f)

\* a zero() that builds with an initializer that stores nothing
SecretVec_zero_init_empty(b) == b

\* SecretVec::zero builds through Box::zero: the initializer is a zero fill
SecretVec_zero_init(b) == as_mut_fill(b, ZeroSlice(b.len, b.esize))

\* a from() that only borrows the data and reads nothing
SecretVec_from_init_empty(b, data) == b

\* SecretVec::from(data) builds through Box::from: the contents of data are
\* copied into the region
SecretVec_from_init(b, data) == as_mut_fill(b, data)

\* a from() that leaves its source as it was
SecretVec_from_source_kept(data) == data

\* ... and data is zeroed out once copied
SecretVec_from_source(data) ==
    [i \in 1..Len(data) |-> [j \in 1..Len(data[i]) |-> 0]]

\* a derived Debug, which prints the field: the elements of the region
SecretVec_fmt_derived(b) ==
    <<"SecretVec">> \o [k \in 1..Len(b.bytes) |-> ToString(b.bytes[k])]

\* Debug for SecretVec, Ref and RefMut: each hands the formatter to its Box
SecretVec_fmt(b) == fmt(b)

Ref_fmt(b) == fmt(b)

RefMut_fmt(b) == fmt(b)

Ref_deref(b) == as_ref(b)

RefMut_deref(b) == as_ref(b)

\* an eq that takes both views and never releases them
SecretVec_eq_leak(h, l, r) ==
    [heap |-> [[h EXCEPT ![l] = unlock(@)] EXCEPT ![r] = unlock(@)],
     result |-> constant_eq(as_ref(h[l]), as_ref(h[r]))]

\* PartialEq for SecretVec: self.boxed.eq(&rhs.boxed)
SecretVec_eq(h, l, r) == Box_eq(h, l, r)

\* an eq between guards that hands the comparison to the two regions, as the
\* containers' does
Ref_eq_RefMut_boxed(h, l, r) == Box_eq(h, l, r)

\* PartialEq between guards: the constant-time comparison of the two
\* dereferenced views, no call into the regions at l and r of heap h
Ref_eq(h, l, r) ==
    [heap |-> h, result |-> constant_eq(Ref_deref(h[l]), Ref_deref(h[r]))]

Ref_eq_RefMut(h, l, r) ==
    [heap |-> h, result |-> constant_eq(Ref_deref(h[l]), RefMut_deref(h[r]))]

RefMut_eq(h, l, r) ==
    [heap |-> h, result |-> constant_eq(RefMut_deref(h[l]), RefMut_deref(h[r]))]

RefMut_eq_Ref(h, l, r) ==
    [heap |-> h, result |-> constant_eq(RefMut_deref(h[l]), Ref_deref(h[r]))]

Ref_new(b) == unlock(b)

\* a Clone that wipes the region it re-unlocks
Ref_clone_erase(b) == unlock(DestroyErase(b))

\* a Clone that copies the reference (as a derive would) and never unlocks
Ref_clone_copy(b) == b

Ref_clone(b) == unlock(b)

\* a drop of a Ref that releases as a RefMut does
Ref_drop_exclusive(b) == LockExclusive(b)

\* a drop that forgets to lock
Ref_drop_leak(b) == b

Ref_drop(b) == lock(b)

RefMut_new(b) == unlock_mut(b)

\* a drop that forgets to lock
RefMut_drop_leak(b) == b

\* a drop that wipes the data before locking
RefMut_drop_erase(b) == lock(DestroyErase(b))

RefMut_drop(b) == lock(b)

RefMut_deref_mut(b, i, v) == as_mut_store(b, i, v)

SecretVec_borrow(b) == Ref_new(b)

SecretVec_borrow_mut(b) == RefMut_new(b)

\* borrow(&self): a shared borrow of the container, refused by the borrow
\* checker while a RefMut (which holds &'a mut Box) is alive
CanBorrow == refmuts = 0

\* borrow_mut(&mut self): an exclusive borrow of the container, refused while
\* any guard is alive
CanBorrowMut == refs = 0 /\ refmuts = 0

\* guards that do not carry the container's lifetime
CanDrop_unchecked == TRUE

\* guards carry the container's lifetime 'a: the container cannot be dropped
\* (moved out of scope) while one is alive
CanDrop == refs = 0 /\ refmuts = 0

\* a container cannot be moved while a guard borrows it
CanMove == refs = 0 /\ refmuts = 0

\* a move that maps a new region and copies the bytes over
SecretVec_move_realloc(b) == [b EXCEPT !.addr = b.addr + 1]

\* let secret_2 = secret_1: the destination holds the very region the source
\* held (SecretVec is a struct around its Box; a move copies the struct)
SecretVec_move(b) == b

\* RefMut given a Clone as well
Cloneable_all(kind) == kind \in {"Ref", "RefMut"}

\* only Ref implements Clone; RefMut derives Eq alone
Cloneable(kind) == kind = "Ref"

\* a use of a moved-from binding is rejected: the container is reached only
\* through the binding that owns it
CanUse(bnd) == bnd = owner

Running == ~box.abort /\ ~peer.abort

\* ----------------------------------------------------------------- actions

Init ==
    /\ pc = "none"
    /\ box = NoBox
    /\ refs = 0
    /\ refmuts = 0
    /\ ctor = "none"
    /\ written = <<>>
    /\ mutated = FALSE
    /\ source = <<>>
    /\ owner = 0
    /\ user = 0
    /\ peer = NoBox
    /\ pguard = "none"

\* SecretVec::new(len, f), up to the call of the initializer
New ==
    /\ pc = "none"
    /\ \E len \in 0..MaxLen, es \in ElemSizes, g \in Bytes, c \in CanaryValues :
          box' = BoxNewUnlocked(len, es, g, c)
    /\ pc' = "initializing"
    /\ ctor' = "new"
    /\ owner' = 1
    /\ user' = 1
    /\ UNCHANGED <<refs, refmuts, written, mutated, source, peerVars>>

\* SecretVec::zero(len), up to the zero fill
Zero ==
    /\ pc = "none"
    /\ \E len \in 0..MaxLen, es \in ElemSizes, g \in Bytes, c \in CanaryValues :
          box' = BoxNewUnlocked(len, es, g, c)
    /\ pc' = "initializing"
    /\ ctor' = "zero"
    /\ owner' = 1
    /\ user' = 1
    /\ UNCHANGED <<refs, refmuts, written, mutated, source, peerVars>>

\* SecretVec::from(&mut data[..]), up to the copy
From ==
    /\ pc = "none"
    /\ \E len \in 0..MaxLen, es \in ElemSizes, g \in Bytes, c \in CanaryValues :
          /\ box' = BoxNewUnlocked(len, es, g, c)
          /\ \E data \in Slices(len, es) : source' = data
    /\ pc' = "initializing"
    /\ ctor' = "from"
    /\ owner' = 1
    /\ user' = 1
    /\ UNCHANGED <<refs, refmuts, written, mutated, peerVars>>

\* the initializer runs against the exclusive view
RunInitializer ==
    /\ pc = "initializing"
    /\ Running
    /\ \E f \in (IF ctor = "new" THEN Slices(box.len, box.esize)
                 ELSE IF ctor = "zero" THEN {ZeroSlice(box.len, box.esize)}
                 ELSE {source}) :
          /\ box' = IF ctor = "new" THEN SecretVec_new_init(box, f)
                    ELSE IF ctor = "zero" THEN SecretVec_zero_init(box)
                    ELSE SecretVec_from_init(box, source)
          /\ written' = f
    /\ source' = IF ctor = "from" THEN SecretVec_from_source(source) ELSE source
    /\ pc' = "initialized"
    /\ UNCHANGED <<refs, refmuts, ctor, mutated, moveVars, peerVars>>

\* Box::new releases the view and the constructor returns the container
FinishNew ==
    /\ pc = "initialized"
    /\ Running
    /\ box' = lock(box)
    /\ pc' = "live"
    /\ UNCHANGED <<refs, refmuts, ctor, written, mutated, source, moveVars, peerVars>>

\* SecretVec::borrow
Borrow ==
    /\ pc = "live"
    /\ Running
    /\ CanBorrow
    /\ refs < MaxRefs
    /\ box' = SecretVec_borrow(box)
    /\ refs' = IF box'.abort THEN refs ELSE refs + 1
    /\ \E bnd \in Bindings : CanUse(bnd) /\ user' = bnd
    /\ UNCHANGED <<pc, refmuts, ctor, written, mutated, source, owner, peerVars>>

\* SecretVec::borrow_mut
BorrowMut ==
    /\ pc = "live"
    /\ Running
    /\ CanBorrowMut
    /\ box' = SecretVec_borrow_mut(box)
    /\ refmuts' = IF box'.abort THEN refmuts ELSE refmuts + 1
    /\ \E bnd \in Bindings : CanUse(bnd) /\ user' = bnd
    /\ UNCHANGED <<pc, refs, ctor, written, mutated, source, owner, peerVars>>

\* clone of a live guard: Ref::clone re-unlocks the region
CloneGuard ==
    /\ pc = "live"
    /\ Running
    /\ \E kind \in {"Ref", "RefMut"} :
          /\ Cloneable(kind)
          /\ IF kind = "Ref"
             THEN /\ refs >= 1
                  /\ refs < MaxRefs
                  /\ box' = Ref_clone(box)
                  /\ refs' = IF box'.abort THEN refs ELSE refs + 1
                  /\ UNCHANGED refmuts
             ELSE /\ refmuts >= 1
                  /\ refmuts < MaxRefs
                  /\ refmuts' = refmuts + 1
                  /\ UNCHANGED <<box, refs>>
    /\ UNCHANGED <<pc, ctor, written, mutated, source, moveVars, peerVars>>

\* a Ref leaves scope
DropRef ==
    /\ pc = "live"
    /\ Running
    /\ refs >= 1
    /\ box' = Ref_drop(box)
    /\ refs' = refs - 1
    /\ UNCHANGED <<pc, refmuts, ctor, written, mutated, source, moveVars, peerVars>>

\* a RefMut leaves scope
DropRefMut ==
    /\ pc = "live"
    /\ Running
    /\ refmuts >= 1
    /\ box' = RefMut_drop(box)
    /\ refmuts' = refmuts - 1
    /\ UNCHANGED <<pc, refs, ctor, written, mutated, source, moveVars, peerVars>>

\* a store of one element through a live RefMut (DerefMut)
Write ==
    /\ pc = "live"
    /\ Running
    /\ refmuts >= 1
    /\ \E i \in 1..box.len, v \in Elements(box.esize) :
          /\ box' = RefMut_deref_mut(box, i, v)
          /\ written' = [written EXCEPT ![i] = v]
    /\ mutated' = TRUE
    /\ UNCHANGED <<pc, refs, refmuts, ctor, source, moveVars, peerVars>>

\* an out-of-bounds store just before the data area, possible only while the
\* pages are writable, overwrites the canary
CorruptCanary ==
    /\ pc \in {"initializing", "initialized", "live"}
    /\ Running
    /\ box.prot = "ReadWrite"
    /\ \E c \in CanaryValues \ {box.canary} : box' = [box EXCEPT !.canary = c]
    /\ UNCHANGED <<pc, refs, refmuts, ctor, written, mutated, source, moveVars, peerVars>>

\* the container leaves scope: Box's destruction starts with its checks
DropContainer ==
    /\ pc = "live"
    /\ Running
    /\ CanDrop
    /\ box' = DestroyVerify(box)
    /\ pc' = "dropping"
    /\ \E bnd \in Bindings : CanUse(bnd) /\ user' = bnd
    /\ UNCHANGED <<refs, refmuts, ctor, written, mutated, source, owner, peerVars>>

Erase ==
    /\ pc = "dropping"
    /\ Running
    /\ box' = DestroyErase(box)
    /\ pc' = "erased"
    /\ UNCHANGED <<refs, refmuts, ctor, written, mutated, source, moveVars, peerVars>>

Munlock ==
    /\ pc = "erased"
    /\ Running
    /\ box' = DestroyMunlock(box)
    /\ pc' = "munlocked"
    /\ UNCHANGED <<refs, refmuts, ctor, written, mutated, source, moveVars, peerVars>>

Release ==
    /\ pc = "munlocked"
    /\ Running
    /\ box' = DestroyRelease(box)
    /\ pc' = "released"
    /\ UNCHANGED <<refs, refmuts, ctor, written, mutated, source, moveVars, peerVars>>

Next ==
    \/ New
    \/ Zero
    \/ From
    \/ RunInitializer
    \/ FinishNew
    \/ Borrow
    \/ BorrowMut
    \/ CloneGuard
    \/ DropRef
    \/ DropRefMut
    \/ Write
    \/ CorruptCanary
    \/ DropContainer
    \/ Erase
    \/ Munlock
    \/ Release

Spec == Init /\ [][Next]_vars

\* ------------------------------------------------------- ownership transfer

\* the container is moved from the binding that owns it to the other one
Move ==
    /\ pc = "live"
    /\ Running
    /\ CanMove
    /\ \E bnd \in Bindings :
          /\ CanUse(bnd)
          /\ \E dst \in Bindings \ {bnd} : owner' = dst /\ user' = dst
    /\ box' = SecretVec_move(box)
    /\ UNCHANGED <<pc, refs, refmuts, ctor, written, mutated, source, peerVars>>

NextMove ==
    \/ Next
    \/ Move

\* the program with moves of the container
SpecMove == Init /\ [][NextMove]_vars

\* ---------------------------------------------------------- two containers

\* the regions of the process by address: the first and the second container's
Heap == <<box, peer>>

\* the guards alive over the region at address a
SharedGuards(a) == IF a = 1 THEN refs ELSE IF pguard = "Ref" THEN 1 ELSE 0

ExclusiveGuards(a) == IF a = 1 THEN refmuts ELSE IF pguard = "RefMut" THEN 1 ELSE 0

\* a second SecretVec::new(len, f) of the same element type, start to end
NewPeer ==
    /\ pc = "live"
    /\ Running
    /\ ~peer.mapped
    /\ Len(box.bytes) <= MaxPairBytes
    /\ \E len \in 0..MaxLen, g \in Bytes, c \in CanaryValues :
          /\ len * box.esize <= MaxPairBytes
          /\ \E f \in Slices(len, box.esize) :
                peer' = [lock(SecretVec_new_init(
                                 BoxNewUnlocked(len, box.esize, g, c), f))
                           EXCEPT !.addr = 2]
    /\ UNCHANGED <<pc, box, refs, refmuts, ctor, written, mutated, source, moveVars, pguard>>

\* lhs == rhs on containers, each side the one or the other (or the same)
EqContainers ==
    /\ pc = "live"
    /\ Running
    /\ \E l \in {1, 2}, r \in {1, 2} :
          /\ Heap[l].mapped /\ Heap[r].mapped
          /\ ExclusiveGuards(l) = 0 /\ ExclusiveGuards(r) = 0
          /\ box' = SecretVec_eq(Heap, l, r).heap[1]
          /\ peer' = SecretVec_eq(Heap, l, r).heap[2]
    /\ UNCHANGED <<pc, refs, refmuts, ctor, written, mutated, source, moveVars, pguard>>

\* lhs == rhs on guards, over one container or one over each
CompareGuards ==
    /\ pc = "live"
    /\ Running
    /\ \E l \in {1, 2}, r \in {1, 2} :
          /\ Heap[l].mapped /\ Heap[r].mapped
          /\ l = r => SharedGuards(l) >= 2
          /\ \/ /\ SharedGuards(l) >= 1 /\ SharedGuards(r) >= 1
                /\ box' = Ref_eq(Heap, l, r).heap[1]
                /\ peer' = Ref_eq(Heap, l, r).heap[2]
             \/ /\ SharedGuards(l) >= 1 /\ ExclusiveGuards(r) >= 1
                /\ box' = Ref_eq_RefMut(Heap, l, r).heap[1]
                /\ peer' = Ref_eq_RefMut(Heap, l, r).heap[2]
             \/ /\ ExclusiveGuards(l) >= 1 /\ ExclusiveGuards(r) >= 1 /\ l # r
                /\ box' = RefMut_eq(Heap, l, r).heap[1]
                /\ peer' = RefMut_eq(Heap, l, r).heap[2]
             \/ /\ ExclusiveGuards(l) >= 1 /\ SharedGuards(r) >= 1
                /\ box' = RefMut_eq_Ref(Heap, l, r).heap[1]
                /\ peer' = RefMut_eq_Ref(Heap, l, r).heap[2]
    /\ UNCHANGED <<pc, refs, refmuts, ctor, written, mutated, source, moveVars, pguard>>

\* borrow() on the second container
PeerBorrow ==
    /\ pc = "live"
    /\ Running
    /\ peer.mapped
    /\ pguard = "none"
    /\ peer' = SecretVec_borrow(peer)
    /\ pguard' = IF peer'.abort THEN pguard ELSE "Ref"
    /\ UNCHANGED <<pc, box, refs, refmuts, ctor, written, mutated, source, moveVars>>

\* borrow_mut() on the second container
PeerBorrowMut ==
    /\ pc = "live"
    /\ Running
    /\ peer.mapped
    /\ pguard = "none"
    /\ peer' = SecretVec_borrow_mut(peer)
    /\ pguard' = IF peer'.abort THEN pguard ELSE "RefMut"
    /\ UNCHANGED <<pc, box, refs, refmuts, ctor, written, mutated, source, moveVars>>

\* the guard over the second container leaves scope
PeerDropGuard ==
    /\ pc = "live"
    /\ Running
    /\ pguard # "none"
    /\ peer' = IF pguard = "Ref" THEN Ref_drop(peer) ELSE RefMut_drop(peer)
    /\ pguard' = "none"
    /\ UNCHANGED <<pc, box, refs, refmuts, ctor, written, mutated, source, moveVars>>

\* a store of one element through the RefMut over the second container
PeerWrite ==
    /\ pc = "live"
    /\ Running
    /\ pguard = "RefMut"
    /\ \E i \in 1..peer.len, v \in Elements(peer.esize) :
          peer' = RefMut_deref_mut(peer, i, v)
    /\ UNCHANGED <<pc, box, refs, refmuts, ctor, written, mutated, source, moveVars, pguard>>

NextPair ==
    \/ New
    \/ RunInitializer
    \/ FinishNew
    \/ Borrow
    \/ BorrowMut
    \/ CloneGuard
    \/ DropRef
    \/ DropRefMut
    \/ Write
    \/ NewPeer
    \/ EqContainers
    \/ CompareGuards
    \/ PeerBorrow
    \/ PeerBorrowMut
    \/ PeerDropGuard
    \/ PeerWrite

\* the program with a second container beside the first
SpecPair == Init /\ [][NextPair]_vars

\* ------------------------------------------------- requests against the rules

\* Ref::new on a container whose RefMut is alive: a request the borrow checker
\* refuses to safe callers of borrow()
ViolateUnlock ==
    /\ pc = "live"
    /\ Running
    /\ ~CanBorrow
    /\ refs < MaxRefs
    /\ box' = Ref_new(box)
    /\ refs' = IF box'.abort THEN refs ELSE refs + 1
    /\ UNCHANGED <<pc, refmuts, ctor, written, mutated, source, moveVars, peerVars>>

\* RefMut::new on a container that has a guard alive: a request the borrow
\* checker refuses to safe callers of borrow_mut()
ViolateUnlockMut ==
    /\ pc = "live"
    /\ Running
    /\ ~CanBorrowMut
    /\ refmuts < MaxRefs
    /\ box' = RefMut_new(box)
    /\ refmuts' = IF box'.abort THEN refmuts ELSE refmuts + 1
    /\ UNCHANGED <<pc, refs, ctor, written, mutated, source, moveVars, peerVars>>

NextRaw ==
    \/ New
    \/ RunInitializer
    \/ FinishNew
    \/ Borrow
    \/ BorrowMut
    \/ CloneGuard
    \/ DropRef
    \/ DropRefMut
    \/ Write
    \/ ViolateUnlock
    \/ ViolateUnlockMut

\* the program with callers that request views against the borrow rules
SpecRaw == Init /\ [][NextRaw]_vars

\* ------------------------------------------------------------------ claims

DropStages == {"dropping", "erased", "munlocked", "released"}

\* the unlocks a region has outstanding
Holds(b) == b.shared + (IF b.exclusive THEN 1 ELSE 0)

NonZero(s) == \E i \in 1..Len(s) : \E j \in 1..Len(s[i]) : s[i][j] # 0

\* C1: while the container is in its caller's hands the protection state
\* matches the outstanding borrows, counted as live guards and as the region's
\* own counters: no-access iff no shared and no exclusive borrow, read-only
\* iff at least one shared and no exclusive borrow, read-write iff the
\* exclusive borrow is held and there is no shared one.
C1_ProtectionMatchesBorrows ==
    /\ box.mapped =>
          /\ box.prot = "NoAccess" <=> (box.shared = 0 /\ ~box.exclusive)
          /\ box.prot = "ReadOnly" <=> (box.shared >= 1 /\ ~box.exclusive)
          /\ box.prot = "ReadWrite" <=> (box.exclusive /\ box.shared = 0)
    /\ pc = "live" =>
          /\ box.prot = "NoAccess" <=> (refs = 0 /\ refmuts = 0)
          /\ box.prot = "ReadOnly" <=> (refs >= 1 /\ refmuts = 0)
          /\ box.prot = "ReadWrite" <=> (refmuts >= 1 /\ refs = 0)

\* a container that was borrowed exclusively, written, released, and is now
\* shared by two guards
C1_Witness ==
    pc = "live" /\ mutated /\ refs = 2 /\ box.prot = "ReadOnly"

\* C2: an exclusive guard never coexists with a shared guard, and there is
\* never more than one exclusive guard.
C2_GuardsMutuallyExclusive ==
    /\ ~(refmuts >= 1 /\ refs >= 1)
    /\ refmuts <= 1

\* the one exclusive guard, alive and written through
C2_Witness ==
    pc = "live" /\ refmuts = 1 /\ refs = 0 /\ mutated

\* C3: every guard drop performs exactly one region lock (the region's
\* outstanding unlocks fall by exactly one), and with every guard dropped the
\* region is no-access with shared count 0 and the exclusive flag clear.
C3_DropLocksOnce ==
    /\ [][(refs' = refs - 1 \/ refmuts' = refmuts - 1)
             => Holds(box') + 1 = Holds(box)]_vars
    /\ []((pc = "live" /\ refs = 0 /\ refmuts = 0)
             => (box.prot = "NoAccess" /\ box.shared = 0 /\ ~box.exclusive))

\* every guard dropped again after an exclusive borrow wrote the container
C3_Witness ==
    pc = "live" /\ mutated /\ refs = 0 /\ refmuts = 0 /\ box.prot = "NoAccess"

\* C4: the shared count equals the number of live shared guards; a borrow or
\* a clone raises it by one, a shared-guard drop lowers it by one, and a clone
\* (a new shared guard beside a live one) leaves bytes and protection alone.
C4_SharedCountIsLiveRefs ==
    /\ [](box.shared = refs)
    /\ [][/\ refs' = refs + 1 =>
                /\ box'.shared = box.shared + 1
                /\ box'.bytes = box.bytes
                /\ refs >= 1 => box'.prot = box.prot
          /\ refs' = refs - 1 => box'.shared = box.shared - 1]_vars

\* three shared guards over one container
C4_Witness ==
    pc = "live" /\ refs = 3 /\ box.shared = 3 /\ NonZero(written)

\* C5: a container is destroyed only with no guard alive, from no-access with
\* shared count 0 and the exclusive flag clear, and from then on the counters
\* and the protection state never change.
C5_DestroyedFromNoAccess ==
    /\ [](pc \in DropStages =>
             /\ refs = 0 /\ refmuts = 0
             /\ box.shared = 0 /\ ~box.exclusive /\ box.prot = "NoAccess")
    /\ [][(pc \in DropStages) =>
             (/\ box'.shared = box.shared
              /\ box'.exclusive = box.exclusive
              /\ box'.prot = box.prot)]_vars

\* a container that was borrowed and written, then destroyed
C5_Witness ==
    pc = "released" /\ mutated /\ ~box.mapped
\* C6: a region with an intact canary is destroyed in the order erase,
\* munlock, release: memory is munlocked only with every data byte zero, the
\* mapping is released only with every data byte zero and the memory no
\* longer locked, and a released region holds no non-zero byte.
C6_EraseMunlockRelease ==
    /\ [][(box.mlocked /\ ~box'.mlocked) => AllZero(box.bytes)]_vars
    /\ [][(box.mapped /\ ~box'.mapped)
             => (AllZero(box.bytes) /\ ~box.mlocked)]_vars
    /\ []((pc # "none" /\ ~box.mapped)
             => (pc = "released" /\ AllZero(box.bytes) /\ ~box.mlocked))
    /\ []((pc = "released" /\ box.canary = box.expect) => ~box.mapped)

\* a released region whose data was non-zero when the container was dropped
C6_Witness ==
    /\ pc = "released"
    /\ ~box.mapped
    /\ box.canary = box.expect
    /\ NonZero(written)

\* C7: dropping a container whose canary differs from the value written at
\* allocation aborts the process at the check: the region is never erased,
\* munlocked or released.
C7_CanaryMismatchAborts ==
    /\ [][(pc = "live" /\ pc' = "dropping" /\ box.canary # box.expect)
             => box'.abort]_vars
    /\ []((pc \in DropStages /\ box.canary # box.expect)
             => (box.abort /\ pc = "dropping" /\ box.mapped /\ box.mlocked))

\* an abort at the drop of a container whose canary was overwritten, its data
\* still in place
C7_Witness ==
    /\ pc = "dropping"
    /\ box.abort
    /\ box.canary # box.expect
    /\ ~AllZero(box.bytes)

\* C8: after SecretVec::new(len, init), a shared guard dereferences to exactly
\* the slice the initializer stored, for scalar and for array elements.
C8_InitializerVisible ==
    (pc = "live" /\ ctor = "new" /\ ~mutated /\ refs >= 1)
        => Ref_deref(box) = written

\* two array elements, [[0,1],[1,0]], read back through a shared guard
C8_Witness ==
    /\ pc = "live" /\ ctor = "new" /\ ~mutated /\ refs >= 1
    /\ box.len = 2 /\ box.esize = 2
    /\ written = <<(<<0, 1>>), (<<1, 0>>)>>
    /\ Ref_deref(box) = <<(<<0, 1>>), (<<1, 0>>)>>

\* C9: with the exclusive guard released a new shared or exclusive guard can
\* be acquired without abort; every guard observes the content last stored
\* through an exclusive view; acquiring, cloning or releasing a guard never
\* changes the data.
C9_WritesPersist ==
    /\ []((pc = "live" /\ refs >= 1) => Ref_deref(box) = written)
    /\ []((pc = "live" /\ refmuts >= 1) => RefMut_deref(box) = written)
    /\ [][(pc = "live" /\ pc' = "live" /\ (refs' # refs \/ refmuts' # refmuts))
             => box'.bytes = box.bytes]_vars
    /\ []((pc = "live" /\ refs = 0 /\ refmuts = 0) =>
             /\ ENABLED Borrow
             /\ ENABLED BorrowMut
             /\ ~SecretVec_borrow(box).abort
             /\ ~SecretVec_borrow_mut(box).abort)

\* zero(2), an exclusive store of [1,0], the guard released, a shared view
C9_Witness ==
    /\ pc = "live" /\ ctor = "zero" /\ mutated
    /\ refmuts = 0 /\ refs >= 1
    /\ box.len = 2 /\ box.esize = 1
    /\ Ref_deref(box) = <<(<<1>>), (<<0>>)>>

\* C10: for n > 0, zero(n) returns a container in no-access with no
\* outstanding borrow whose shared view is n zero elements.
C10_ZeroInitialized ==
    /\ []((pc = "live" /\ ctor = "zero" /\ ~mutated /\ refs >= 1 /\ box.len > 0)
             => Ref_deref(box) = ZeroSlice(box.len, box.esize))
    /\ [][(ctor = "zero" /\ pc = "initialized" /\ pc' = "live") =>
             (/\ box'.prot = "NoAccess"
              /\ box'.shared = 0
              /\ ~box'.exclusive
              /\ refs' = 0
              /\ refmuts' = 0)]_vars

\* zero(2) over array elements, read through a shared guard
C10_Witness ==
    /\ pc = "live" /\ ctor = "zero" /\ ~mutated /\ refs >= 1
    /\ box.len = 2 /\ box.esize = 2
    /\ Ref_deref(box) = <<(<<0, 0>>), (<<0, 0>>)>>
\* C11: SecretVec::from(data) copies data into the region and then zeroes it:
\* the container has the buffer's length, every element of the buffer reads
\* zero, and a shared view reads the buffer's original content.
C11_FromCopiesThenZeroes ==
    (ctor = "from" /\ pc = "live") =>
        /\ box.len = Len(source)
        /\ source = ZeroSlice(box.len, box.esize)
        /\ (~mutated /\ refs >= 1) => Ref_deref(box) = written

\* from(&mut [1, 1]): the source reads [0, 0], the shared view [1, 1]
C11_Witness ==
    /\ ctor = "from" /\ pc = "live" /\ ~mutated /\ refs >= 1
    /\ box.len = 2 /\ box.esize = 1
    /\ written = <<(<<1>>), (<<1>>)>>
    /\ Ref_deref(box) = <<(<<1>>), (<<1>>)>>
    /\ source = <<(<<0>>), (<<0>>)>>
\* C12: a move leaves the region as it is (content, protection, counters, its
\* mapping: nothing is reallocated or copied), the destination binding is the
\* one every later operation goes through, and the region is destroyed once,
\* through the binding that owns it.
C12_MovePreservesRegion ==
    /\ [][(owner # 0 /\ owner' # owner) =>
             (/\ box' = box
              /\ refs' = refs /\ refmuts' = refmuts
              /\ pc = "live" /\ pc' = "live"
              /\ written' = written)]_vars
    /\ [](box.mapped => box.addr = 1)
    /\ [](user = owner)
    /\ [][(pc \in DropStages) => (pc' \in DropStages /\ owner' = owner)]_vars

\* a container written, moved to the second binding and read through it
C12_Witness ==
    /\ owner = 2 /\ pc = "live" /\ mutated /\ refs = 1
    /\ NonZero(written)
    /\ Ref_deref(box) = written
\* C13: the Debug output of a container, of a shared guard and of an
\* exclusive guard does not depend on the elements: a container that differs
\* in any one element formats the same, whatever guards are outstanding.
C13_DebugRedacted ==
    (pc = "live") =>
        \A i \in 1..box.len : \A v \in Elements(box.esize) :
            /\ SecretVec_fmt(as_mut_store(box, i, v)) = SecretVec_fmt(box)
            /\ refs >= 1 => Ref_fmt(as_mut_store(box, i, v)) = Ref_fmt(box)
            /\ refmuts >= 1 =>
                  RefMut_fmt(as_mut_store(box, i, v)) = RefMut_fmt(box)

\* a container of non-zero content under two shared guards formats as the
\* same container wiped would
C13_Witness ==
    /\ pc = "live" /\ refs = 2 /\ box.prot = "ReadOnly"
    /\ NonZero(written) /\ ~AllZero(box.bytes)
    /\ SecretVec_fmt(box) = SecretVec_fmt(DestroyErase(box))
    /\ Ref_fmt(box) = Ref_fmt(DestroyErase(box))

\* the containers on which == may be called: live regions with no RefMut alive
Comparable(a) == Heap[a].mapped /\ ExclusiveGuards(a) = 0

\* C14: when == on two containers returns, the shared count and the protection
\* of each side are what they were before the call: no-access if the caller
\* held no guard, read-only with the same count if the caller held shared
\* guards, also when both sides are the same container; nothing aborts, and the
\* result tells whether the two contents are equal.
C14_ContainerEqRestoresState ==
    (pc = "live" /\ Running) =>
        \A l \in {1, 2}, r \in {1, 2} :
            (Comparable(l) /\ Comparable(r)) =>
                LET o == SecretVec_eq(Heap, l, r)
                IN  /\ o.result = (as_ref(Heap[l]) = as_ref(Heap[r]))
                    /\ \A a \in {1, 2} : o.heap[a] = Heap[a]
                    /\ \A a \in {l, r} :
                          /\ o.heap[a].shared = SharedGuards(a)
                          /\ ~o.heap[a].exclusive
                          /\ ~o.heap[a].abort
                          /\ o.heap[a].prot =
                                IF SharedGuards(a) = 0 THEN "NoAccess" ELSE "ReadOnly"

\* two containers of different content, the first under two shared guards of
\* the caller and the second under none, on which == answers false
C14_Witness ==
    /\ pc = "live" /\ Running /\ peer.mapped
    /\ refs = 2 /\ refmuts = 0 /\ pguard = "none"
    /\ box.prot = "ReadOnly" /\ peer.prot = "NoAccess"
    /\ box.len = 1 /\ peer.len = 1
    /\ ~SecretVec_eq(Heap, 1, 2).result
    /\ SecretVec_eq(Heap, 1, 1).result

\* C15: two shared guards alive over one container, whether from two borrow()
\* calls or from a clone of a guard, read the content last written and compare
\* equal; the step that creates the second guard and the comparison both leave
\* the content as it was.
C15_SharedGuardsAgree ==
    /\ []((pc = "live" /\ Running /\ refs >= 2) =>
            /\ Ref_deref(box) = written
            /\ Ref_eq(Heap, 1, 1).result
            /\ Ref_eq(Heap, 1, 1).heap = Heap)
    /\ [][(pc = "live" /\ refs >= 1 /\ refs' = refs + 1) =>
            /\ box'.bytes = box.bytes
            /\ Ref_deref(box') = Ref_deref(box)]_vars

\* two shared guards over a container whose content was written by a caller
C15_Witness ==
    /\ pc = "live" /\ Running /\ refs = 2 /\ box.shared = 2
    /\ mutated /\ NonZero(written)
    /\ Ref_deref(box) = written

\* the guards alive over the region at address a, by kind
Guards(a) ==
    (IF SharedGuards(a) >= 1 THEN {"Ref"} ELSE {}) \cup
    (IF ExclusiveGuards(a) >= 1 THEN {"RefMut"} ELSE {})

\* lhs == rhs for a guard of kind k over the region at l and one of kind m over
\* the region at r
GuardEq(k, m, l, r) ==
    IF k = "Ref" /\ m = "Ref" THEN Ref_eq(Heap, l, r)
    ELSE IF k = "Ref" /\ m = "RefMut" THEN Ref_eq_RefMut(Heap, l, r)
    ELSE IF k = "RefMut" /\ m = "RefMut" THEN RefMut_eq(Heap, l, r)
    ELSE RefMut_eq_Ref(Heap, l, r)

\* C18: equality between guards of any two kinds makes no unlock or lock
\* transition: the shared counts, exclusive flags and protections of both
\* regions are after the comparison what they were before it, and the result
\* is true exactly when the two views have equal content.
C18_GuardEqNoTransition ==
    (pc = "live" /\ Running) =>
        \A l \in {1, 2}, r \in {1, 2} :
            (Heap[l].mapped /\ Heap[r].mapped) =>
                \A k \in Guards(l), m \in Guards(r) :
                    LET o == GuardEq(k, m, l, r)
                    IN  /\ o.result = (as_ref(Heap[l]) = as_ref(Heap[r]))
                        /\ \A a \in {1, 2} :
                              /\ o.heap[a].shared = Heap[a].shared
                              /\ o.heap[a].exclusive = Heap[a].exclusive
                              /\ o.heap[a].prot = Heap[a].prot
                              /\ o.heap[a].abort = Heap[a].abort

\* a shared guard over the first container and the exclusive guard over the
\* second, whose contents differ after a write through the latter
C18_Witness ==
    /\ pc = "live" /\ Running /\ peer.mapped
    /\ refs = 1 /\ pguard = "RefMut"
    /\ box.prot = "ReadOnly" /\ peer.prot = "ReadWrite"
    /\ box.len = 1 /\ peer.len = 1
    /\ ~Ref_eq_RefMut(Heap, 1, 2).result
    /\ ~RefMut_eq_Ref(Heap, 2, 1).result

\* the protection-state invariant of a region and the guards counted over it
ProtectionInvariant ==
    /\ ~(box.exclusive /\ box.shared > 0)
    /\ box.prot = (IF box.exclusive THEN "ReadWrite"
                   ELSE IF box.shared > 0 THEN "ReadOnly" ELSE "NoAccess")
    /\ box.shared = refs
    /\ box.exclusive = (refmuts = 1)
    /\ refmuts <= 1

\* C16: an unlock request that violates mutual exclusion aborts: a shared
\* unlock while the exclusive borrow is held, an exclusive unlock while the
\* shared count is non-zero or the exclusive borrow is held. The request hands
\* out no view, changes nothing else of the region, and the protection-state
\* invariant holds in every state, the aborted ones included.
C16_ViolatingUnlockAborts ==
    /\ []((pc = "live" /\ Running /\ box.exclusive) => Ref_new(box) = Abort(box))
    /\ []((pc = "live" /\ Running /\ (box.shared # 0 \/ box.exclusive))
             => RefMut_new(box) = Abort(box))
    /\ [](pc = "live" => ProtectionInvariant)
    /\ [][(pc = "live" /\ ~box.abort /\ box'.abort) =>
            box' = Abort(box) /\ refs' = refs /\ refmuts' = refmuts]_vars
    /\ [][(pc = "live" /\ refs' > refs) => ~box.exclusive /\ ~box'.abort]_vars
    /\ [][(pc = "live" /\ refmuts' > refmuts) =>
            box.shared = 0 /\ ~box.exclusive /\ ~box'.abort]_vars

\* a process aborted by an exclusive unlock requested over two shared guards
C16_Witness ==
    /\ pc = "live" /\ box.abort
    /\ refs = 2 /\ refmuts = 0 /\ box.shared = 2 /\ ~box.exclusive
    /\ box.prot = "ReadOnly"

\* the steps of SecretVec::new before the container is handed back
Setup == {"initializing", "initialized"}

\* C17: SecretVec::new allocates, acquires the exclusive view, runs the
\* initializer and releases the view, in that order: the region is read-write
\* with the exclusive borrow and no guard from allocation to release, only the
\* initializer's step changes the data during setup, and the container handed
\* back is no-access with shared count 0 and no exclusive borrow.
C17_NewOrdersSetup ==
    /\ []((ctor = "new" /\ pc \in Setup /\ Running) =>
            /\ box.mapped /\ box.prot = "ReadWrite" /\ box.exclusive
            /\ box.shared = 0 /\ refs = 0 /\ refmuts = 0)
    /\ [](pc = "none" => ~box.mapped /\ box.prot = "NoAccess")
    /\ [][(pc = "none" /\ ctor' = "new") => pc' = "initializing"]_vars
    /\ [][(ctor = "new" /\ pc = "initializing" /\ pc' # pc) =>
            /\ pc' = "initialized"
            /\ as_ref(box') = written'
            /\ box'.prot = "ReadWrite" /\ box'.exclusive]_vars
    /\ [][(ctor = "new" /\ pc \in Setup /\ box'.bytes # box.bytes) =>
            pc = "initializing" /\ pc' = "initialized"]_vars
    /\ [][(ctor = "new" /\ pc = "initialized" /\ pc' # pc) =>
            /\ pc' = "live"
            /\ box'.bytes = box.bytes
            /\ box'.prot = "NoAccess" /\ box'.shared = 0 /\ ~box'.exclusive
            /\ ~box'.abort
            /\ refs' = 0 /\ refmuts' = 0]_vars

\* the initializer has run and stored non-zero elements, the view not yet
\* released
C17_Witness ==
    /\ ctor = "new" /\ pc = "initialized" /\ Running
    /\ box.prot = "ReadWrite" /\ box.exclusive
    /\ box.len = 2
    /\ NonZero(written) /\ as_ref(box) = written

\* C19: both guard kinds release through lock(): at the drop of a RefMut it is
\* the exclusive release (read-write to no-access, exclusive borrow cleared),
\* at the drop of a Ref the shared release (count lowered by one, no-access
\* only when the count reaches 0, read-only while other Refs remain).
C19_LockIsBothReleases ==
    /\ [][(pc = "live" /\ refmuts = refmuts' + 1) =>
            /\ box.prot = "ReadWrite" /\ box.exclusive
            /\ box' = lock(box)
            /\ box' = LockExclusive(box)
            /\ box'.prot = "NoAccess" /\ ~box'.exclusive
            /\ box'.shared = box.shared]_vars
    /\ [][(pc = "live" /\ refs = refs' + 1) =>
            /\ box.prot = "ReadOnly" /\ ~box.exclusive
            /\ box' = lock(box)
            /\ box' = LockShared(box)
            /\ box'.shared + 1 = box.shared
            /\ ~box'.exclusive
            /\ box'.prot = IF box'.shared = 0 THEN "NoAccess" ELSE "ReadOnly"]_vars

\* a container whose RefMut was dropped after a write, read-only under the one
\* Ref that remains
C19_Witness ==
    /\ pc = "live" /\ Running /\ mutated
    /\ refs = 1 /\ refmuts = 0
    /\ box.shared = 1 /\ box.prot = "ReadOnly" /\ ~box.exclusive
    /\ lock(box).prot = "NoAccess"

====
